---- MODULE Spec2Model ----
(***************************************************************************)
(* A model of slurm-map: src/src/slurm_map.py (startJobs, map, compute,    *)
(* the cleanup / cancel command line) and src/src/utils.py.                *)
(*                                                                         *)
(* One namespace directory is modelled together with the processes that    *)
(* touch it: the controlling process running map, the jobs the scheduler   *)
(* runs (compute), and the cancel and cleanup commands.  The other         *)
(* specifications are:                                                     *)
(*   SpecNS      the namespace path computation of map, applied to pairs   *)
(*               of (caller file, function name, kwargs hash) triples;     *)
(*   SpecMon     map and its jobs beside other jobs of the same user;      *)
(*   SpecFaults  map and its jobs when the controlling process may be      *)
(*               killed and a node may not see an artifact in time;        *)
(*   SpecWatch   the log watcher threads, their log files, the stop flag;  *)
(*   SpecRm      one call of robust_rmtree, attempt by attempt.            *)
(***************************************************************************)
EXTENDS Integers, Sequences, FiniteSets, TLC

(***************************************************************************)
(* Bounds of the model.                                                    *)
(***************************************************************************)
MaxPayload == 2
MaxLen == 2
MaxJobs == 2
MaxInvocations == 2
MaxCliRuns == 1
MaxStem == 2
MaxLines == 2

(***************************************************************************)
(* Program constants.                                                      *)
(***************************************************************************)
max_iterations == 20
max_retries == 6

Payloads == 1..MaxPayload
JobIds == 1..MaxJobs

\* The payload a job sees when its argument artifact cannot be unpickled
\* (unpickleWithTimeout returns None).
NoneArg == 0

\* md5(pickle.dumps(x)).hexdigest(): a digest that is a function of the
\* serialized payload alone, distinct for distinct payloads.
Hash(x) == <<"md5", x>>

Hashes == {Hash(x) : x \in Payloads}

\* The payload whose digest is h.
Payload(h) == h[2]

\* function(args, **kwargs): the value the mapped function returns.
Apply(x) == <<"res", x>>

\* File contents.  A file is absent, present but not yet completely written
\* (opened for writing at its final name), or holds a complete value.
Absent == <<"absent">>
Partial == <<"partial">>
ArgOf(x) == <<"arg", x>>

\* results = [None]*len(data): the missing sentinel.
None == <<>>

\* os.path.isfile
isfile(f) == f # Absent

\* The input collections the caller may pass to map.
DataSets == UNION {[1..n -> Payloads] : n \in 0..MaxLen}

Range(s) == {s[i] : i \in 1..Len(s)}

HashesOf(d) == {Hash(d[i]) : i \in 1..Len(d)}

RECURSIVE Count(_, _)
Count(x, s) == IF s = <<>> THEN 0
               ELSE (IF s[1] = x THEN 1 ELSE 0) + Count(x, Tail(s))

\* all(succeeded) / any(running)
all(s) == \A i \in 1..Len(s) : s[i]
any(s) == \E i \in 1..Len(s) : s[i]

\* str(job_id): the decimal digits of a job identifier.
RECURSIVE str(_)
str(n) == IF n < 10 THEN <<n>> ELSE str(n \div 10) \o <<n % 10>>

\* a in b, for strings
IsSubstring(a, b) ==
    \E k \in 0..(Len(b) - Len(a)) : \A i \in 1..Len(a) : b[k + i] = a[i]

VARIABLES
    \* ---- the namespace directory
    nsExists,      \* the namespace directory exists
    argFile,       \* args/arg_<hash>.dill, per hash
    resFile,       \* results/res_<hash>.dill, per hash
    ledger,        \* job_ids.json: whether it is present, and the job ids it lists
    \* ---- the scheduler
    jobs,          \* per job id: its state, the hash it was submitted for, the args it loaded
    nextId,        \* the next job id the scheduler hands out
    scancelCalls,  \* per job id: the scancel commands of the last cancel run
    \* ---- the controlling process (map)
    pc,            \* where map is
    inv,           \* number of map invocations so far
    data,          \* the input collection
    cleanup,       \* the cleanup option
    idx,           \* startJobs: position of the submission loop
    new_ids,       \* startJobs: job_ids, the ids parsed in this pass
    len_new_data,  \* startJobs: items that needed a submission
    job_ids,       \* map: the ledger as read back
    running,       \* map: the last answer of jobs_running
    results,       \* map: results
    succeeded,     \* map: succeeded
    iteration,     \* map: iteration
    stopListeners, \* the module-level stop flag
    sbatchLog,     \* hashes for which sbatch was invoked in this invocation
    prevMapped,    \* hashes mapped by earlier invocations
    \* ---- the cancel and cleanup commands
    cpc, cjobs, cidx, cliRuns,
    \* ---- the namespace path computation (SpecNS)
    tripleA, tripleB, folderA, folderB,
    \* ---- the other jobs of the same user (SpecMon)
    foreign,       \* the active jobs of the user that this namespace did not submit
    \* ---- the log watchers (SpecWatch)
    wpc,           \* per job id: where the watcher thread of job_<id>.log is
    logFile,       \* per job id: slurm/job_<id>.log, whether it is there and its lines
    pipe,          \* per job id: the lines tail -F has put out and the watcher has not read
    \* ---- robust_rmtree, attempt by attempt (SpecRm)
    rpc,           \* where robust_rmtree is
    ri,            \* its loop variable i
    dt,            \* its delay dt
    rattempts      \* the calls of shutil.rmtree it has made

fsVars == <<nsExists, argFile, resFile, ledger>>
schedVars == <<jobs, nextId, scancelCalls>>
mapVars == <<pc, inv, data, cleanup, idx, new_ids, len_new_data, job_ids,
             running, results, succeeded, iteration, stopListeners,
             sbatchLog, prevMapped>>
cliVars == <<cpc, cjobs, cidx, cliRuns>>
nsVars == <<tripleA, tripleB, folderA, folderB>>
watchVars == <<wpc, logFile, pipe>>
rmVars == <<rpc, ri, dt, rattempts>>
envVars == <<foreign, watchVars, rmVars>>
vars == <<fsVars, schedVars, mapVars, cliVars, nsVars, envVars>>

NoLedger == [present |-> FALSE, ids |-> <<>>]

NoJob == [st |-> "none", h |-> Hash(1), args |-> NoneArg]

\* A job that has left the scheduler's queue.
Gone == [st |-> "gone", h |-> Hash(1), args |-> NoneArg]

\* squeue -u $(whoami): the jobs the scheduler lists are the pending and the
\* running ones.
Active(j) == jobs[j].st \in {"pending", "running", "writing", "written"}

\* The jobs of the same user that were not submitted for this namespace get
\* their identifiers from the same scheduler: some hold a ledger identifier
\* as a substring of their own (12 holds 1 and 2), some do not.
ForeignIds == {MaxJobs + 1, 10 + MaxJobs}

squeue == {j \in JobIds : Active(j)} \cup foreign

\* A status query that looks for the first job id only.
jobs_runningFirstOnly(ids) ==
    [i \in 1..Len(ids) |->
        i = 1 /\ \E a \in squeue : IsSubstring(str(ids[i]), str(a))]

\* jobs_running: str(job_id) in squeue, for each job id.
jobs_running(ids) ==
    [i \in 1..Len(ids) |-> \E a \in squeue : IsSubstring(str(ids[i]), str(a))]

\* shutil.rmtree(folder): the directory and everything in it is gone.
RmtreeFs ==
    /\ nsExists' = FALSE
    /\ argFile' = [h \in Hashes |-> Absent]
    /\ resFile' = [h \in Hashes |-> Absent]
    /\ ledger' = NoLedger

\* robust_rmtree(path): nothing to do unless path is a directory.
robust_rmtree ==
    IF nsExists THEN RmtreeFs ELSE UNCHANGED fsVars

(***************************************************************************)
(* The controlling process: map and startJobs.                             *)
(***************************************************************************)

\* A call of map(function, data, cleanup=c) by the caller, up to the start of
\* the submission loop: the namespace folder is computed and created, the
\* function and kwargs artifacts are written (startJobs, lines 30-46).  The
\* stop flag is False in a process that has not been interrupted (line 27).
Invoke(d, c) ==
    /\ pc \in {"idle", "done", "exited", "crashed", "killed"}
    /\ inv < MaxInvocations
    /\ inv' = inv + 1
    /\ data' = d
    /\ cleanup' = c
    /\ prevMapped' = IF pc = "idle" THEN {} ELSE prevMapped \cup HashesOf(data)
    /\ nsExists' = TRUE
    /\ idx' = 1
    /\ new_ids' = <<>>
    /\ len_new_data' = 0
    /\ sbatchLog' = <<>>
    /\ job_ids' = <<>>
    /\ running' = <<>>
    /\ results' = <<>>
    /\ succeeded' = <<>>
    /\ iteration' = 0
    /\ stopListeners' = FALSE
    /\ pc' = "submit"
    /\ UNCHANGED <<argFile, resFile, ledger, schedVars, cliVars, nsVars, envVars>>

\* A dedup check that looks at the result artifact only.
AlreadyThereResultOnly(h) == isfile(resFile[h])

\* The dedup check of the submission loop (lines 48-53).
AlreadyThere(h) == isfile(argFile[h]) \/ isfile(resFile[h])

\* One pass of the submission loop for an item whose argument or result
\* artifact exists: continue.
SubmitSkip ==
    /\ pc = "submit"
    /\ idx <= Len(data)
    /\ AlreadyThere(Hash(data[idx]))
    /\ idx' = idx + 1
    /\ UNCHANGED <<fsVars, schedVars, cliVars, nsVars, envVars, pc, inv, data, cleanup,
                   new_ids, len_new_data, job_ids, running, results, succeeded,
                   iteration, stopListeners, sbatchLog, prevMapped>>

\* One pass of the submission loop for an item that needs a job (lines 55-82):
\* the argument artifact and the job script are written and sbatch is run.
\* The scheduler either accepts the job ("Submitted batch job <id>") or
\* answers with some other line, which is printed.
SubmitNew(accepted) ==
    /\ pc = "submit"
    /\ idx <= Len(data)
    /\ ~AlreadyThere(Hash(data[idx]))
    /\ accepted => nextId <= MaxJobs
    /\ LET h == Hash(data[idx]) IN
        /\ len_new_data' = len_new_data + 1
        /\ nsExists' = TRUE
        /\ argFile' = [argFile EXCEPT ![h] = ArgOf(data[idx])]
        /\ sbatchLog' = Append(sbatchLog, h)
        /\ IF accepted
           THEN /\ jobs' = [jobs EXCEPT ![nextId] = [st |-> "pending", h |-> h, args |-> NoneArg]]
                /\ nextId' = nextId + 1
                /\ new_ids' = Append(new_ids, nextId)
           ELSE UNCHANGED <<jobs, nextId, new_ids>>
    /\ idx' = idx + 1
    /\ UNCHANGED <<resFile, ledger, scancelCalls, cliVars, nsVars, envVars, pc, inv, data,
                   cleanup, job_ids, running, results, succeeded, iteration,
                   stopListeners, prevMapped>>

\* After the loop (lines 84-98): the previous ledger is read if it can be,
\* and previous_job_ids + job_ids is written back; startJobs returns and its
\* local variables are gone.
\* A ledger write that forgets what was persisted before.
MergeLedgerOverwrite(previous_job_ids, ids) == ids

MergeLedger(previous_job_ids, ids) == previous_job_ids \o ids

PersistLedger ==
    /\ pc = "submit"
    /\ idx > Len(data)
    /\ LET previous_job_ids == IF ledger.present THEN ledger.ids ELSE <<>> IN
        ledger' = [present |-> TRUE, ids |-> MergeLedger(previous_job_ids, new_ids)]
    /\ nsExists' = TRUE
    /\ idx' = 1
    /\ new_ids' = <<>>
    /\ len_new_data' = 0
    /\ pc' = "started"
    /\ UNCHANGED <<argFile, resFile, schedVars, cliVars, nsVars, envVars, inv, data, cleanup,
                   job_ids, running, results, succeeded, iteration,
                   stopListeners, sbatchLog, prevMapped>>

\* map, lines 130-144: the ledger is read back, the scheduler is asked once,
\* the stop flag is reset.  open() raises when the ledger is not there.
ReadLedger ==
    /\ pc = "started"
    /\ IF ledger.present
       THEN /\ job_ids' = ledger.ids
            /\ running' = jobs_running(ledger.ids)
            /\ stopListeners' = FALSE
            /\ pc' = "poll"
       ELSE /\ pc' = "crashed"
            /\ UNCHANGED <<job_ids, running, stopListeners>>
    /\ UNCHANGED <<fsVars, schedVars, cliVars, nsVars, envVars, inv, data, cleanup, idx,
                   new_ids, len_new_data, results, succeeded, iteration,
                   sbatchLog, prevMapped>>

\* The poll loop (lines 148-150): while any(running), sleep and ask again.
PollWait ==
    /\ pc = "poll"
    /\ any(running)
    /\ running' = jobs_running(job_ids)
    /\ UNCHANGED <<fsVars, schedVars, cliVars, nsVars, envVars, pc, inv, data, cleanup, idx,
                   new_ids, len_new_data, job_ids, results, succeeded, iteration,
                   stopListeners, sbatchLog, prevMapped>>

\* An interrupt handler that also ends the jobs it was waiting for.
InterruptCancelling ==
    /\ pc = "poll"
    /\ stopListeners' = TRUE
    /\ pc' = "exited"
    /\ jobs' = [j \in JobIds |-> IF Active(j) THEN Gone ELSE jobs[j]]
    /\ job_ids' = <<>>
    /\ running' = <<>>
    /\ UNCHANGED <<fsVars, nextId, scancelCalls, cliVars, nsVars, envVars, inv, data, cleanup,
                   idx, new_ids, len_new_data, results, succeeded, iteration,
                   sbatchLog, prevMapped>>

\* KeyboardInterrupt inside the poll loop (lines 151-154): the flag is set
\* and the process exits.
Interrupt ==
    /\ pc = "poll"
    /\ stopListeners' = TRUE
    /\ pc' = "exited"
    /\ job_ids' = <<>>
    /\ running' = <<>>
    /\ UNCHANGED <<fsVars, schedVars, cliVars, nsVars, envVars, inv, data, cleanup, idx,
                   new_ids, len_new_data, results, succeeded, iteration,
                   sbatchLog, prevMapped>>

\* The poll loop ends and result collection is set up (lines 156-162);
\* job_ids and running are not read again.
PollExit ==
    /\ pc = "poll"
    /\ ~any(running)
    /\ results' = [i \in 1..Len(data) |-> None]
    /\ succeeded' = [i \in 1..Len(data) |-> FALSE]
    /\ iteration' = 0
    /\ job_ids' = <<>>
    /\ running' = <<>>
    /\ pc' = "collect"
    /\ UNCHANGED <<fsVars, schedVars, cliVars, nsVars, envVars, inv, data, cleanup, idx,
                   new_ids, len_new_data, stopListeners, sbatchLog, prevMapped>>

\* open(res_<hash>.dill) and pickle.load succeed: the file holds a complete
\* value and the read does not fail for a transient reason.
Readable(i, failing) ==
    /\ i \notin failing
    /\ resFile[Hash(data[i])] \notin {Absent, Partial}

\* A collection that stores what it reads in the mirrored position.
CollectResultMirrored(i, failing) ==
    IF ~succeeded[i] /\ Readable(i, failing)
    THEN resFile[Hash(data[Len(data) + 1 - i])] ELSE results[i]

\* What one pass stores at index i (lines 165-172).
CollectResult(i, failing) ==
    IF ~succeeded[i] /\ Readable(i, failing)
    THEN resFile[Hash(data[i])] ELSE results[i]

\* A collector that forgets an index it cannot read again.
CollectSucceededRereading(i, failing) == Readable(i, failing)

\* What one pass stores in succeeded[i] (lines 165-172).
CollectSucceeded(i, failing) == succeeded[i] \/ Readable(i, failing)

\* A loop condition that allows one pass more.
CollectMoreOffByOne == (~all(succeeded)) /\ (iteration <= max_iterations)

\* The loop condition of the result collection (line 164).
CollectMore == (~all(succeeded)) /\ (iteration < max_iterations)

\* One pass of the result collection (lines 164-176).  failing: the indices
\* whose read raises in this pass although the artifact is complete (the
\* filesystem has not caught up).
CollectPass(failing) ==
    /\ pc = "collect"
    /\ CollectMore
    /\ results' = [i \in 1..Len(data) |-> CollectResult(i, failing)]
    /\ succeeded' = [i \in 1..Len(data) |-> CollectSucceeded(i, failing)]
    /\ iteration' = iteration + 1
    /\ UNCHANGED <<fsVars, schedVars, cliVars, nsVars, envVars, pc, inv, data, cleanup, idx,
                   new_ids, len_new_data, job_ids, running, stopListeners,
                   sbatchLog, prevMapped>>

\* A cleanup that is not gated on completeness.
DoCleanupUngated == cleanup

\* The condition under which map removes the namespace (line 184).
DoCleanup == cleanup /\ all(succeeded)

\* After the loop (lines 178-187): clean up if asked to and complete, return.
Return ==
    /\ pc = "collect"
    /\ ~CollectMore
    /\ IF DoCleanup THEN robust_rmtree ELSE UNCHANGED fsVars
    /\ pc' = "done"
    /\ UNCHANGED <<schedVars, cliVars, nsVars, envVars, inv, data, cleanup, idx, new_ids,
                   len_new_data, job_ids, running, results, succeeded, iteration,
                   stopListeners, sbatchLog, prevMapped>>

\* The controlling process ends where it is: it is killed, or a
\* KeyboardInterrupt reaches it outside the try of lines 147-154, where
\* nothing of startJobs or map handles it.  What it held in memory is gone.
Kill ==
    /\ pc \in {"submit", "started", "poll", "collect"}
    /\ pc' = "killed"
    /\ idx' = 1
    /\ new_ids' = <<>>
    /\ len_new_data' = 0
    /\ job_ids' = <<>>
    /\ running' = <<>>
    /\ results' = <<>>
    /\ succeeded' = <<>>
    /\ iteration' = 0
    /\ UNCHANGED <<fsVars, schedVars, cliVars, nsVars, envVars, inv, data, cleanup,
                   stopListeners, sbatchLog, prevMapped>>

(***************************************************************************)
(* The remote execution entrypoint: compute, run by the scheduler as a job.*)
(***************************************************************************)

\* unpickleWithTimeout(arg_file): the unpickled value, or None when the file
\* cannot be read.
unpickleWithTimeout(f) == IF f \in {Absent, Partial} THEN NoneArg ELSE f[2]

\* An entrypoint that removes the argument artifact as soon as it has
\* loaded it.
JobStartConsumingArg(j) ==
    /\ jobs[j].st = "pending"
    /\ IF nsExists
       THEN /\ jobs' = [jobs EXCEPT ![j].st = "running",
                                    ![j].args = unpickleWithTimeout(argFile[jobs[j].h])]
            /\ argFile' = [argFile EXCEPT ![jobs[j].h] = Absent]
       ELSE /\ jobs' = [jobs EXCEPT ![j] = Gone]
            /\ UNCHANGED argFile
    /\ UNCHANGED <<nsExists, resFile, ledger, nextId, scancelCalls, mapVars, cliVars,
                   nsVars, envVars>>

\* The scheduler starts job j and compute loads its inputs (lines 191-198).
\* open(kwarg_file) raises when the namespace has been removed.
JobStart(j) ==
    /\ jobs[j].st = "pending"
    /\ IF nsExists
       THEN jobs' = [jobs EXCEPT ![j].st = "running",
                                 ![j].args = unpickleWithTimeout(argFile[jobs[j].h])]
       ELSE jobs' = [jobs EXCEPT ![j] = Gone]
    /\ UNCHANGED <<fsVars, nextId, scancelCalls, mapVars, cliVars, nsVars, envVars>>

\* A finally clause that keeps the argument artifact.
RemoveArgNever(h) == argFile

\* The scheduler starts job j on a node that does not see the argument
\* artifact within the num_tries attempts of unpickleWithTimeout (the shared
\* filesystem has not caught up): it returns None and compute goes on.
JobStartUnreadable(j) ==
    /\ jobs[j].st = "pending"
    /\ nsExists
    /\ isfile(argFile[jobs[j].h])
    /\ jobs' = [jobs EXCEPT ![j].st = "running", ![j].args = unpickleWithTimeout(Absent)]
    /\ UNCHANGED <<fsVars, nextId, scancelCalls, mapVars, cliVars, nsVars, envVars>>

\* The finally clause of compute (lines 205-209): os.remove(arg_file).
RemoveArg(h) == [argFile EXCEPT ![h] = Absent]

\* function(args, **kwargs) raises (line 201): no result artifact is written,
\* the argument artifact is removed, the job ends.
JobRaise(j) ==
    /\ jobs[j].st = "running"
    /\ argFile' = RemoveArg(jobs[j].h)
    /\ jobs' = [jobs EXCEPT ![j] = Gone]
    /\ UNCHANGED <<nsExists, resFile, ledger, nextId, scancelCalls, mapVars,
                   cliVars, nsVars, envVars>>

\* function returns and open(res_file, "wb") creates the result artifact
\* under its final name (line 203); open raises when the results directory
\* has been removed, and the finally clause runs.
JobOpenResult(j) ==
    /\ jobs[j].st = "running"
    /\ IF nsExists
       THEN /\ resFile' = [resFile EXCEPT ![jobs[j].h] = Partial]
            /\ jobs' = [jobs EXCEPT ![j].st = "writing"]
            /\ UNCHANGED argFile
       ELSE /\ jobs' = [jobs EXCEPT ![j] = Gone]
            /\ UNCHANGED <<resFile, argFile>>
    /\ UNCHANGED <<nsExists, ledger, nextId, scancelCalls, mapVars, cliVars, nsVars, envVars>>

\* pickle.dump(res, f) and the close of the file (line 204).  A file that was
\* unlinked in between is written to no name.
JobDumpResult(j) ==
    /\ jobs[j].st = "writing"
    /\ resFile' = IF resFile[jobs[j].h] = Absent THEN resFile
                  ELSE [resFile EXCEPT ![jobs[j].h] = Apply(jobs[j].args)]
    /\ jobs' = [jobs EXCEPT ![j].st = "written"]
    /\ UNCHANGED <<nsExists, argFile, ledger, nextId, scancelCalls, mapVars,
                   cliVars, nsVars, envVars>>

\* The finally clause after a successful write, the completion sentinel and
\* the end of the job (lines 205-211).
JobFinish(j) ==
    /\ jobs[j].st = "written"
    /\ argFile' = RemoveArg(jobs[j].h)
    /\ jobs' = [jobs EXCEPT ![j] = Gone]
    /\ UNCHANGED <<nsExists, resFile, ledger, nextId, scancelCalls, mapVars,
                   cliVars, nsVars, envVars>>

(***************************************************************************)
(* The command line: cancel and cleanup (lines 247-265).                   *)
(***************************************************************************)

\* scancel <job_id>: the scheduler ends the job if it is pending or running.
scancel(j) ==
    /\ scancelCalls' = [scancelCalls EXCEPT ![j] = @ + 1]
    /\ jobs' = IF Active(j) THEN [jobs EXCEPT ![j] = Gone] ELSE jobs

\* cancel <namespace>: the ledger is read if it is a file (lines 255-259).
CancelBegin ==
    /\ cpc = "idle"
    /\ cliRuns < MaxCliRuns
    /\ cliRuns' = cliRuns + 1
    /\ IF ledger.present
       THEN /\ cjobs' = ledger.ids
            /\ cidx' = 1
            /\ cpc' = "cancel"
            /\ scancelCalls' = [j \in JobIds |-> 0]
       ELSE UNCHANGED <<cpc, cjobs, cidx, scancelCalls>>
    /\ UNCHANGED <<fsVars, jobs, nextId, mapVars, nsVars, envVars>>

\* A cancel command that skips the jobs the scheduler no longer lists.
CancelTargetsActiveOnly(ids) == {i \in 1..Len(ids) : Active(ids[i])}

\* The ledger entries for which the cancel command runs scancel (line 260).
CancelTargets(ids) == 1..Len(ids)

\* One pass of the loop over the ledger entries (lines 260-263).
CancelStep ==
    /\ cpc = "cancel"
    /\ cidx <= Len(cjobs)
    /\ IF cidx \in CancelTargets(cjobs)
       THEN scancel(cjobs[cidx])
       ELSE UNCHANGED <<jobs, scancelCalls>>
    /\ cidx' = cidx + 1
    /\ UNCHANGED <<fsVars, nextId, mapVars, cpc, cjobs, cliRuns, nsVars, envVars>>

CancelEnd ==
    /\ cpc = "cancel"
    /\ cidx > Len(cjobs)
    /\ cpc' = "idle"
    /\ cjobs' = <<>>
    /\ cidx' = 1
    /\ UNCHANGED <<fsVars, schedVars, mapVars, cliRuns, nsVars, envVars>>

\* cleanup <namespace> (lines 247-253).
CliCleanup ==
    /\ cpc = "idle"
    /\ cliRuns < MaxCliRuns
    /\ cliRuns' = cliRuns + 1
    /\ robust_rmtree
    /\ UNCHANGED <<schedVars, mapVars, cpc, cjobs, cidx, nsVars, envVars>>

(***************************************************************************)
(* The other jobs of the same user, which squeue -u $(whoami) lists as     *)
(* well (utils.py, line 39).                                               *)
(***************************************************************************)

\* The user submits a job that has nothing to do with this namespace.
ForeignSubmit(f) ==
    /\ f \notin foreign
    /\ foreign' = foreign \cup {f}
    /\ UNCHANGED <<fsVars, schedVars, mapVars, cliVars, nsVars, watchVars, rmVars>>

\* Such a job ends.
ForeignEnd(f) ==
    /\ f \in foreign
    /\ foreign' = foreign \ {f}
    /\ UNCHANGED <<fsVars, schedVars, mapVars, cliVars, nsVars, watchVars, rmVars>>

(***************************************************************************)
(* The log watchers: watchFileAsync (utils.py, lines 15-32), one thread    *)
(* per job that the first status query of map reports as running (map,     *)
(* line 144), the log file each of them watches and the stop flag.         *)
(***************************************************************************)

\* The lines of a job's log: output of the job, and the completion sentinel
\* "slurm_map saved data!" that compute prints last (line 211).  What tail -F
\* reports on its standard error when the file it follows has been removed
\* reaches the watcher as a line too (stderr=subprocess.STDOUT, line 26).
OutputLine == "output"
Sentinel == "slurm_map saved data!"
Inaccessible == "tail: file has become inaccessible"

\* The log file that the scheduler has not created yet.
NoLog == [st |-> "never", lines |-> <<>>]

\* os.path.isfile(filepath)
LogIsFile(j) == logFile[j].st = "present"

\* tail -F is running for the watcher of job j.
Tailing(j) == wpc[j] \in {"stream", "read"}

\* map, line 144: a watcher thread is started for a job that was reported
\* running; stopListeners is False then (line 138).
watchFileAsync(j) ==
    /\ wpc[j] = "none"
    /\ ~stopListeners
    /\ wpc' = [wpc EXCEPT ![j] = "wait"]
    /\ UNCHANGED <<fsVars, schedVars, mapVars, cliVars, nsVars, foreign, logFile,
                   pipe, rmVars>>

\* The scheduler starts the job and creates its log file.
LogCreate(j) ==
    /\ logFile[j].st = "never"
    /\ logFile' = [logFile EXCEPT ![j].st = "present"]
    /\ UNCHANGED <<fsVars, schedVars, mapVars, cliVars, nsVars, foreign, wpc, pipe,
                   rmVars>>

\* The job writes a line: output, or the sentinel as its last line.
LogAppend(j, line) ==
    /\ LogIsFile(j)
    /\ Len(logFile[j].lines) < MaxLines
    /\ Sentinel \notin Range(logFile[j].lines)
    /\ logFile' = [logFile EXCEPT ![j].lines = Append(@, line)]
    /\ pipe' = IF Tailing(j) THEN [pipe EXCEPT ![j] = Append(@, line)] ELSE pipe
    /\ UNCHANGED <<fsVars, schedVars, mapVars, cliVars, nsVars, foreign, wpc, rmVars>>

\* The namespace is removed (robust_rmtree, by map or by the cleanup
\* command), and the log file with it.
LogRemove(j) ==
    /\ LogIsFile(j)
    /\ logFile' = [logFile EXCEPT ![j] = [st |-> "removed", lines |-> <<>>]]
    /\ pipe' = IF Tailing(j) THEN [pipe EXCEPT ![j] = Append(@, Inaccessible)] ELSE pipe
    /\ UNCHANGED <<fsVars, schedVars, mapVars, cliVars, nsVars, foreign, wpc, rmVars>>

\* KeyboardInterrupt in the poll loop (map, line 152): the stop flag is set.
SetStopListeners ==
    /\ ~stopListeners
    /\ \E j \in JobIds : wpc[j] # "none"
    /\ stopListeners' = TRUE
    /\ UNCHANGED <<fsVars, schedVars, cliVars, nsVars, envVars, pc, inv, data, cleanup,
                   idx, new_ids, len_new_data, job_ids, running, results, succeeded,
                   iteration, sbatchLog, prevMapped>>

\* The first loop of the watcher (lines 19-24) finds the file: it is left
\* and tail -F is started (line 26), which puts out the last lines of the file.
WatchFound(j) ==
    /\ wpc[j] = "wait"
    /\ LogIsFile(j)
    /\ wpc' = [wpc EXCEPT ![j] = "stream"]
    /\ pipe' = [pipe EXCEPT ![j] = logFile[j].lines]
    /\ UNCHANGED <<fsVars, schedVars, mapVars, cliVars, nsVars, foreign, logFile,
                   rmVars>>

\* The first loop does not find the file and stop() answers True (line 23):
\* the watcher returns.  (When stop() answers False it sleeps and looks again.)
WatchStopWaiting(j) ==
    /\ wpc[j] = "wait"
    /\ ~LogIsFile(j)
    /\ stopListeners
    /\ wpc' = [wpc EXCEPT ![j] = "done"]
    /\ UNCHANGED <<fsVars, schedVars, mapVars, cliVars, nsVars, foreign, logFile,
                   pipe, rmVars>>

\* The condition of the second loop (line 27).
WatchLoopTest(j) ==
    /\ wpc[j] = "stream"
    /\ wpc' = [wpc EXCEPT ![j] = IF LogIsFile(j) THEN "read" ELSE "done"]
    /\ UNCHANGED <<fsVars, schedVars, mapVars, cliVars, nsVars, foreign, logFile,
                   pipe, rmVars>>

\* What the watcher does with the line it has read (lines 29-31): break on
\* the sentinel, return when stop() answers True, print and go on otherwise.
AfterLine(line) ==
    IF line = Sentinel THEN "done"
    ELSE IF stopListeners THEN "done"
    ELSE "stream"

\* f.stdout.readline() (line 28) returns the next line of tail's output; it
\* does not return while there is none.
WatchRead(j) ==
    /\ wpc[j] = "read"
    /\ pipe[j] # <<>>
    /\ pipe' = [pipe EXCEPT ![j] = Tail(@)]
    /\ wpc' = [wpc EXCEPT ![j] = AfterLine(Head(pipe[j]))]
    /\ UNCHANGED <<fsVars, schedVars, mapVars, cliVars, nsVars, foreign, logFile,
                   rmVars>>

\* The steps of the watcher thread of job j.
WatchStep(j) ==
    \/ WatchFound(j)
    \/ WatchStopWaiting(j)
    \/ WatchLoopTest(j)
    \/ WatchRead(j)

(***************************************************************************)
(* robust_rmtree (utils.py, lines 62-83), attempt by attempt.  An attempt  *)
(* of shutil.rmtree that raises OSError may already have removed files.    *)
(***************************************************************************)

\* What is left of the artifacts after an attempt that failed having
\* removed those of the hashes in gone.
PartlyRemoved(files, gone) == [h \in Hashes |-> IF h \in gone THEN Absent ELSE files[h]]

\* shutil.rmtree(path) raises OSError: the directory is still there.
RmtreeFails(gone) ==
    /\ argFile' = PartlyRemoved(argFile, gone)
    /\ resFile' = PartlyRemoved(resFile, gone)
    /\ UNCHANGED <<nsExists, ledger>>

\* The call and line 68: nothing to do unless path is a directory.
RmCall ==
    /\ rpc = "idle"
    /\ rpc' = IF nsExists THEN "retry" ELSE "returned"
    /\ ri' = 0
    /\ dt' = 1
    /\ rattempts' = 0
    /\ UNCHANGED <<fsVars, schedVars, mapVars, cliVars, nsVars, foreign, watchVars>>

\* One pass of the loop (lines 71-80): return when shutil.rmtree succeeds,
\* sleep dt and double it when it raises OSError.
RmRetry(ok, gone) ==
    /\ rpc = "retry"
    /\ ri < max_retries
    /\ ok => gone = {}
    /\ rattempts' = rattempts + 1
    /\ IF ok
       THEN /\ RmtreeFs
            /\ rpc' = "returned"
            /\ UNCHANGED <<ri, dt>>
       ELSE /\ RmtreeFails(gone)
            /\ ri' = ri + 1
            /\ dt' = dt * 2
            /\ UNCHANGED rpc
    /\ UNCHANGED <<schedVars, mapVars, cliVars, nsVars, foreign, watchVars>>

\* A final attempt whose error is swallowed.
RmFinalSwallowed(ok) == "returned"

\* How the final attempt (line 83) ends: its exception goes to the caller.
RmFinalOutcome(ok) == IF ok THEN "returned" ELSE "raised"

\* After the loop (lines 82-83): the final attempt.
RmFinal(ok, gone) ==
    /\ rpc = "retry"
    /\ ri = max_retries
    /\ ok => gone = {}
    /\ rattempts' = rattempts + 1
    /\ IF ok THEN RmtreeFs ELSE RmtreeFails(gone)
    /\ rpc' = RmFinalOutcome(ok)
    /\ UNCHANGED <<ri, dt, schedVars, mapVars, cliVars, nsVars, foreign, watchVars>>

(***************************************************************************)
(* The specification of the job lifecycle.                                 *)
(***************************************************************************)

NsIdle == <<<<>>, <<>>, <<>>>>

\* Nothing has been mapped: there is no namespace directory.
InitNamespace ==
    /\ nsExists = FALSE
    /\ argFile = [h \in Hashes |-> Absent]
    /\ resFile = [h \in Hashes |-> Absent]
    /\ ledger = NoLedger

\* No job, no process, no thread.
InitProcesses ==
    /\ jobs = [j \in JobIds |-> NoJob]
    /\ nextId = 1
    /\ scancelCalls = [j \in JobIds |-> 0]
    /\ pc = "idle"
    /\ inv = 0
    /\ data = <<>>
    /\ cleanup = TRUE
    /\ idx = 1
    /\ new_ids = <<>>
    /\ len_new_data = 0
    /\ job_ids = <<>>
    /\ running = <<>>
    /\ results = <<>>
    /\ succeeded = <<>>
    /\ iteration = 0
    /\ stopListeners = FALSE
    /\ sbatchLog = <<>>
    /\ prevMapped = {}
    /\ cpc = "idle"
    /\ cjobs = <<>>
    /\ cidx = 1
    /\ cliRuns = 0
    /\ tripleA = NsIdle
    /\ tripleB = NsIdle
    /\ folderA = <<>>
    /\ folderB = <<>>
    /\ foreign = {}
    /\ wpc = [j \in JobIds |-> "none"]
    /\ logFile = [j \in JobIds |-> NoLog]
    /\ pipe = [j \in JobIds |-> <<>>]
    /\ rpc = "idle"
    /\ ri = 0
    /\ dt = 1
    /\ rattempts = 0

Init == InitNamespace /\ InitProcesses

MapNext ==
    \/ \E d \in DataSets, c \in BOOLEAN : Invoke(d, c)
    \/ SubmitSkip
    \/ \E accepted \in BOOLEAN : SubmitNew(accepted)
    \/ PersistLedger
    \/ ReadLedger
    \/ PollWait
    \/ Interrupt
    \/ PollExit
    \/ \E failing \in SUBSET (1..Len(data)) : CollectPass(failing)
    \/ Return

JobNext ==
    \E j \in JobIds :
        \/ JobStart(j)
        \/ JobRaise(j)
        \/ JobOpenResult(j)
        \/ JobDumpResult(j)
        \/ JobFinish(j)

CliNext ==
    \/ CancelBegin
    \/ CancelStep
    \/ CancelEnd
    \/ CliCleanup

Next == MapNext \/ JobNext \/ CliNext

Spec == Init /\ [][Next]_vars

\* The controlling process and its jobs beside the other jobs of the user.
ForeignNext == \E f \in ForeignIds : ForeignSubmit(f) \/ ForeignEnd(f)

NextMon == MapNext \/ JobNext \/ ForeignNext

SpecMon == Init /\ [][NextMon]_vars

\* The controlling process and its jobs when the process may be killed and a
\* node may fail to see an artifact in time.
FaultNext == Kill \/ \E j \in JobIds : JobStartUnreadable(j)

NextFaults == MapNext \/ JobNext \/ FaultNext

SpecFaults == Init /\ [][NextFaults]_vars

\* The log watchers, the log files they watch and the stop flag.
NextWatch ==
    \/ SetStopListeners
    \/ \E j \in JobIds :
          \/ watchFileAsync(j)
          \/ LogCreate(j)
          \/ \E line \in {OutputLine, Sentinel} : LogAppend(j, line)
          \/ LogRemove(j)
          \/ WatchFound(j)
          \/ WatchStopWaiting(j)
          \/ WatchLoopTest(j)
          \/ WatchRead(j)

SpecWatch == Init /\ [][NextWatch]_vars

\* The paths robust_rmtree may be called with: no directory, or a namespace
\* directory with any artifacts in it.
Namespaces ==
    /\ nsExists \in BOOLEAN
    /\ argFile \in [Hashes -> {Absent} \cup {ArgOf(x) : x \in Payloads}]
    /\ resFile \in [Hashes -> {Absent, Partial} \cup {Apply(x) : x \in Payloads}]
    /\ ledger \in {NoLedger, [present |-> TRUE, ids |-> <<>>], [present |-> TRUE, ids |-> <<1>>]}
    /\ \A h \in Hashes :
          /\ argFile[h] \in {Absent, ArgOf(Payload(h))}
          /\ resFile[h] \in {Absent, Partial, Apply(Payload(h))}
    /\ ~nsExists =>
          /\ ledger = NoLedger
          /\ \A h \in Hashes : argFile[h] = Absent /\ resFile[h] = Absent

InitRm == Namespaces /\ InitProcesses

\* One call of robust_rmtree.
NextRm ==
    \/ RmCall
    \/ \E ok \in BOOLEAN, gone \in SUBSET Hashes : RmRetry(ok, gone)
    \/ \E ok \in BOOLEAN, gone \in SUBSET Hashes : RmFinal(ok, gone)

SpecRm == InitRm /\ [][NextRm]_vars

(***************************************************************************)
(* The namespace path (map, lines 121-126).  A string is a sequence of     *)
(* characters; the fixed parts of a path are written as one symbol each.   *)
(***************************************************************************)

Letters == {"a", "p", "y"}

\* The names of caller files: <stem>.py
CallerFiles ==
    {stem \o <<".", "p", "y">> : stem \in UNION {[1..n -> Letters] : n \in 1..MaxStem}}

FunctionNames == {<<"f">>, <<"g">>}

\* md5(json.dumps(kwargs)).hexdigest(), for two keyword-argument sets.
KwargsHashes == {<<"d41d">>, <<"37a6">>}

Triples == CallerFiles \X FunctionNames \X KwargsHashes

\* str.rstrip(chars): the string without its trailing characters that are
\* in chars.
RECURSIVE rstrip(_, _)
rstrip(s, chars) ==
    IF s # <<>> /\ s[Len(s)] \in chars
    THEN rstrip(SubSeq(s, 1, Len(s) - 1), chars)
    ELSE s

\* os.path.join(a, b)
PathJoin2(a, b) ==
    IF b # <<>> /\ b[1] = "/" THEN b
    ELSE IF a = <<>> \/ a[Len(a)] = "/" THEN a \o b
    ELSE a \o <<"/">> \o b

SLURM_MAP_DIR == <<".slurm_map">>

\* callee_filename (line 121)
CalleeFilename(file) == rstrip(file, {".", "p", "y"})

\* folder (line 126)
Folder(t) ==
    PathJoin2(PathJoin2(PathJoin2(PathJoin2(<<".">>, SLURM_MAP_DIR),
                                  CalleeFilename(t[1])), t[2]), t[3])

\* Two calls of map, from any two callers with any two functions and
\* keyword-argument sets: each computes its folder.
Resolve(a, b) ==
    /\ tripleA = NsIdle
    /\ tripleA' = a
    /\ tripleB' = b
    /\ folderA' = Folder(a)
    /\ folderB' = Folder(b)
    /\ UNCHANGED <<fsVars, schedVars, mapVars, cliVars, envVars>>

NextNS == \E a \in Triples, b \in Triples : Resolve(a, b)

SpecNS == Init /\ [][NextNS]_vars

(***************************************************************************)
(* The claims.                                                             *)
(***************************************************************************)

\* The artifact holds a complete value.
Complete(f) == f \notin {Absent, Partial}

\* What C1_ResultOrderIsInputOrder asks of every step.
C1_Step ==
    /\ (pc = "collect" /\ pc' = "collect") =>
          /\ Len(results') = Len(data)
          /\ \A i \in 1..Len(data) :
                /\ succeeded[i] => (succeeded'[i] /\ results'[i] = results[i])
                /\ (~succeeded[i] /\ succeeded'[i]) =>
                      /\ Complete(resFile[Hash(data[i])])
                      /\ results'[i] = resFile[Hash(data[i])]
                /\ ~succeeded'[i] => results'[i] = None
    /\ (pc = "collect" /\ pc' = "done") =>
          /\ results' = results
          /\ Len(results') = Len(data')

\* C1: during result collection an index that becomes resolved receives the
\* value held by the result artifact named by the hash of data[i], a resolved
\* index keeps its value, an unresolved index holds None, and the list map
\* returns is the collected one, as long as the input; none of this depends
\* on which job finished first or which artifact appeared first.
C1_ResultOrderIsInputOrder == [][C1_Step]_vars

\* C1 witness: a complete batch of two different items, collected in more
\* than one pass, returned in input order.
C1_Witness ==
    /\ pc = "done"
    /\ Len(data) = 2
    /\ data[1] # data[2]
    /\ all(succeeded)
    /\ iteration >= 2
    /\ results = <<Apply(data[1]), Apply(data[2])>>

\* C2: within one invocation sbatch is run at most once per content hash, and
\* the indices that hold one payload resolve to one value.  Stated for runs
\* in which no cancel or cleanup command has been used.
C2_OneJobPerHash ==
    (cliRuns = 0) =>
        /\ \A h \in Hashes : Count(h, sbatchLog) <= 1
        /\ pc = "done" =>
              \A i, j \in 1..Len(data) :
                  (data[i] = data[j] /\ succeeded[i] /\ succeeded[j])
                      => results[i] = results[j]

C3_Step ==
    /\ \A h \in Hashes :
          (sbatchLog' # sbatchLog /\ Count(h, sbatchLog') > Count(h, sbatchLog)) =>
              /\ ~isfile(argFile[h])
              /\ ~isfile(resFile[h])
              /\ argFile'[h] = ArgOf(Payload(h))
    /\ cliRuns = 0 =>
          /\ \A j \in JobIds : Active(j) => isfile(argFile[jobs[j].h])
          /\ \A h \in Hashes :
                (Complete(resFile[h]) /\ nsExists') => resFile'[h] = resFile[h]

C4_DeletedIffAllResolved ==
    (pc = "done" /\ cliRuns = 0 /\ Len(data) >= 1) =>
        (~nsExists <=> all(succeeded))

\* What C4_CleanupIffAskedAndComplete asks of every step.
C4_Step ==
    (pc = "collect" /\ pc' = "done") =>
        IF cleanup /\ all(succeeded)
        THEN /\ ~nsExists'
             /\ ~ledger'.present
             /\ \A h \in Hashes : ~isfile(argFile'[h]) /\ ~isfile(resFile'[h])
        ELSE /\ UNCHANGED fsVars
             /\ cliRuns = 0 => (nsExists' /\ ledger'.present)

\* C4 amended: the step in which map returns removes the namespace and all
\* its artifacts if the cleanup option is set and every index resolved, and
\* otherwise leaves the namespace, the ledger and every artifact as they
\* were (and, no cleanup command having been used, the namespace exists).
C4_CleanupIffAskedAndComplete == [][C4_Step]_vars

\* C4 witness: map has returned a complete batch of two items with the
\* cleanup option off, and the namespace is still there.
C4_Witness ==
    /\ pc = "done"
    /\ ~cleanup
    /\ Len(data) = 2
    /\ all(succeeded)
    /\ nsExists
    /\ \E h \in Hashes : Complete(resFile[h])

\* C5: the collection loop makes at most max_iterations passes and can then
\* return; a batch returned incomplete took all the passes, holds None at
\* every unresolved index, and its namespace has not been removed by map.
C5_BoundedCollection ==
    /\ iteration <= max_iterations
    /\ (pc = "collect" /\ iteration = max_iterations) => ENABLED Return
    /\ pc = "done" =>
          /\ Len(results) = Len(data)
          /\ \A i \in 1..Len(data) : ~succeeded[i] => results[i] = None
    /\ (pc = "done" /\ ~all(succeeded)) =>
          /\ iteration = max_iterations
          /\ cliRuns = 0 => (nsExists /\ ledger.present)

\* C5 witness: map has returned with cleanup on after max_iterations passes,
\* an index is unresolved, the namespace is there.
C5_Witness ==
    /\ pc = "done"
    /\ cleanup
    /\ iteration = max_iterations
    /\ \E i \in 1..Len(data) : ~succeeded[i] /\ results[i] = None
    /\ nsExists

\* A step of the cancel command.
CancelActs == cpc' # cpc \/ cidx' # cidx \/ cjobs' # cjobs \/ scancelCalls' # scancelCalls

\* What C6_OneScancelPerLedgerEntry asks of every step.
C6_Step ==
    /\ (cpc = "idle" /\ cpc' = "cancel") =>
            (ledger.present /\ cjobs' = ledger.ids /\ cidx' = 1)
    /\ cpc' = "cancel" =>
            \A j \in JobIds :
                scancelCalls'[j] = Count(j, SubSeq(cjobs', 1, cidx' - 1))
    /\ (cpc = "cancel" /\ cpc' = "idle") => cidx = Len(cjobs) + 1
    /\ (cpc = "idle" /\ ~ledger.present) =>
            (cpc' = "idle" /\ scancelCalls' = scancelCalls)
    /\ CancelActs => UNCHANGED fsVars

\* C6: the cancel command reads the ledger, and after k passes of its loop it
\* has run scancel exactly once for each of the first k entries, whatever
\* the state of the job; it changes neither the ledger nor any artifact; with
\* no ledger it runs no scancel.
C6_OneScancelPerLedgerEntry == [][C6_Step]_vars

\* C6 witness: the cancel command has gone through a ledger of two jobs, one
\* scancel each; one of the two jobs had run to its end by itself.
C6_Witness ==
    /\ cpc = "cancel"
    /\ Len(cjobs) = 2
    /\ cidx = 3
    /\ scancelCalls = [j \in JobIds |-> IF j \in {cjobs[1], cjobs[2]} THEN 1 ELSE 0]
    /\ cjobs[1] # cjobs[2]
    /\ \E h \in Hashes : Complete(resFile[h]) /\ ~isfile(argFile[h])

\* What C7_InterruptLeavesJobsAndFiles asks of every step.
C7_Step ==
    /\ (pc = "poll" /\ pc' = "exited") =>
          /\ stopListeners'
          /\ UNCHANGED <<fsVars, schedVars>>
          /\ \A j \in JobIds : Active(j) => jobs'[j] = jobs[j]
    /\ pc' = "exited" => (results' = <<>> /\ succeeded' = <<>> /\ iteration' = 0)
    /\ pc = "exited" =>
          \/ (pc' = "exited" /\ UNCHANGED mapVars)
          \/ (pc' = "submit" /\ inv' = inv + 1)

\* C7: the interrupt sets the stop flag and ends map, and in that step the
\* scheduler (its jobs, the scancel commands it received), the ledger and the
\* artifacts stay as they are; after it map does nothing (no collection, no
\* cleanup) until it is called again.
C7_InterruptLeavesJobsAndFiles == [][C7_Step]_vars

\* C7 witness: map has been interrupted, a job of the ledger is still active
\* and its argument artifact is there.
C7_Witness ==
    /\ pc = "exited"
    /\ stopListeners
    /\ ledger.present
    /\ \E i \in 1..Len(ledger.ids) :
          /\ Active(ledger.ids[i])
          /\ isfile(argFile[jobs[ledger.ids[i]].h])

\* C8: two different (caller file, function name, kwargs hash) triples never
\* get the same folder.
C8_DifferentTriplesDifferentFolders ==
    (tripleA # NsIdle /\ tripleA # tripleB) => folderA # folderB

\* C9: no reader stands before an artifact that exists under its final name
\* without being completely written: neither the dedup check of the
\* submission loop nor a collection pass.  Stated for runs in which no cancel
\* or cleanup command has been used.
C9_NoPartialArtifactVisible ==
    (cliRuns = 0) =>
        /\ ~(pc = "submit" /\ idx <= Len(data) /\ resFile[Hash(data[idx])] = Partial)
        /\ ~(pc = "collect" /\ \E i \in 1..Len(data) :
                                  ~succeeded[i] /\ resFile[Hash(data[i])] = Partial)

IsPrefix(s, t) == Len(s) <= Len(t) /\ SubSeq(t, 1, Len(s)) = s

\* What C10_LedgerAppendOnly asks of every step.
C10_Step ==
    /\ nextId' # nextId =>
          (pc = "submit" /\ new_ids' = Append(new_ids, nextId) /\ ledger' = ledger)
    /\ new_ids' # new_ids => (nextId' # nextId \/ new_ids' = <<>>)
    /\ ledger' # ledger =>
          \/ (~nsExists' /\ ledger' = NoLedger)
          \/ /\ pc = "submit" /\ pc' = "started"
             /\ ledger'.present
             /\ IsPrefix(ledger.ids, ledger'.ids)
             /\ ledger'.ids = ledger.ids \o new_ids

\* C10: the ledger changes only by a submission pass, which writes the ids
\* persisted before followed by the ids the scheduler accepted in this pass,
\* or by the removal of the whole namespace.
C10_LedgerAppendOnly == [][C10_Step]_vars

\* C10 witness: the second invocation has persisted its one new job behind
\* the job of the first invocation.
C10_Witness ==
    /\ inv = 2
    /\ pc = "started"
    /\ Len(data) = 1
    /\ ledger.present
    /\ ledger.ids = <<1, 2>>
    /\ jobs[2].st = "pending"
    /\ jobs[2].h = Hash(data[1])

\* The job ids of the ledger none of which the scheduler lists as active.
LedgerIdle(ids) == \A i \in 1..Len(ids) : ~Active(ids[i])

\* The same of the ledger and the scheduler after the step.
LedgerIdleAfter ==
    \A i \in 1..Len(ledger'.ids) :
        jobs'[ledger'.ids[i]].st \notin {"pending", "running", "writing", "written"}

\* What C11_CollectsOnlyAfterLedgerJobs asks of every step.
C11_Step ==
    /\ (pc' = "poll" /\ (pc = "started" \/ running' # running)) =>
          /\ job_ids' = ledger.ids
          /\ \A i \in 1..Len(job_ids') : Active(job_ids'[i]) => running'[i]
    /\ (pc = "poll" /\ pc' = "collect") =>
          /\ ~any(running)
          /\ ledger.present /\ job_ids = ledger.ids
          /\ LedgerIdle(ledger.ids)
    /\ pc' = "collect" => (ledger'.present /\ LedgerIdleAfter)
    /\ (nsExists /\ ~nsExists') =>
          (pc = "collect" /\ ledger.present /\ LedgerIdle(ledger.ids))

\* C11: every status query of map reports each active job of the ledger as
\* running; the step from the poll loop to result collection is taken on an
\* answer that reports none running, in a state where no job of the ledger
\* is active; none becomes active during collection, and the namespace is
\* removed by map only then.  (SpecMon: there are other jobs of the user,
\* and no cancel or cleanup command.)
C11_CollectsOnlyAfterLedgerJobs == [][C11_Step]_vars

\* C11 witness: collection has started for a ledger of two jobs, both gone,
\* while a job of the user that is not in the ledger is active.
C11_Witness ==
    /\ pc = "collect"
    /\ ledger.present
    /\ Len(ledger.ids) = 2
    /\ LedgerIdle(ledger.ids)
    /\ MaxJobs + 1 \in foreign

\* C12: in the poll loop, once no job of the ledger is active, the status
\* query reports none running, so that the loop exits on it, whatever other
\* jobs of the user are active.
C12_PollExitsDespiteOtherJobs ==
    (pc = "poll" /\ LedgerIdle(job_ids)) => ~any(jobs_running(job_ids))

\* What C13_ResolvedOnceAndFlag asks of every step.
C13_Step ==
    /\ (pc = "poll" /\ pc' = "collect") =>
          (iteration' = 0 /\ \A i \in 1..Len(data) : ~succeeded'[i])
    /\ (pc = "collect" /\ CollectMore) =>
          \A i \in 1..Len(data) :
              (~succeeded[i] /\ Complete(resFile[Hash(data[i])])) =>
                  /\ CollectSucceeded(i, {})
                  /\ CollectResult(i, {}) = resFile[Hash(data[i])]
    /\ (pc = "collect" /\ succeeded' # succeeded) =>
          (pc' = "collect" /\ iteration < max_iterations /\ iteration' = iteration + 1)
    /\ (pc = "collect" /\ pc' \in {"collect", "done"}) =>
          \A i \in 1..Len(data) :
              succeeded[i] => (succeeded'[i] /\ results'[i] = results[i])
    /\ (pc = "collect" /\ pc' = "done") =>
          /\ all(succeeded') <=> (\A i \in 1..Len(data) : results'[i] # None)
          /\ Len(data) = 0 => (iteration' = 0 /\ all(succeeded'))
          /\ DoCleanup' <=> (cleanup /\ \A i \in 1..Len(data) : results'[i] # None)

\* C13: collection starts with every index unresolved; an unresolved index
\* whose artifact holds a complete value is resolved, with that value, by a
\* pass whose read does not fail; indices get resolved only by a pass below
\* the retry ceiling; a resolved index stays resolved with its value,
\* whatever happens to the artifact afterwards; and when the loop is left
\* the completion flag all(succeeded) is true exactly if every index holds a
\* value instead of the missing sentinel, which for an empty input is after
\* zero passes.
C13_ResolvedOnceAndFlag == [][C13_Step]_vars

\* C13 witness: two items, the batch became complete on the second pass and
\* the collector is about to leave the loop with both values in place.
C13_Witness ==
    /\ pc = "collect"
    /\ iteration = 2
    /\ Len(data) = 2
    /\ succeeded = <<TRUE, TRUE>>
    /\ results = <<Apply(data[1]), Apply(data[2])>>
    /\ ~CollectMore

\* What C14_FailedItemIsRetried asks of every step.
C14_Step ==
    /\ \A j \in JobIds :
          (jobs[j].st = "running" /\ jobs'[j].st = "gone" /\ scancelCalls' = scancelCalls) =>
              /\ ~isfile(argFile'[jobs[j].h])
              /\ resFile' = resFile
    /\ (pc = "submit" /\ idx <= Len(data) /\ idx' = idx + 1) =>
          LET h == Hash(data[idx]) IN
              (~isfile(argFile[h]) /\ ~isfile(resFile[h])) =>
                  /\ sbatchLog' = Append(sbatchLog, h)
                  /\ argFile'[h] = ArgOf(data[idx])
                  /\ nextId' # nextId =>
                        (jobs'[nextId].st = "pending" /\ jobs'[nextId].h = h)

\* C14: a job that ends while the mapped function runs (the function raised)
\* leaves no argument artifact for its hash and writes no result artifact;
\* and whenever the submission loop reaches an item that has neither
\* artifact, it writes the argument artifact and runs sbatch for the item's
\* hash, the job the scheduler accepts being a job for that hash.
C14_FailedItemIsRetried == [][C14_Step]_vars

\* C14 witness: the only job of the first invocation ended without a result
\* (no cancel or cleanup command was used), and the second invocation has
\* submitted a new job for the same item.
C14_Witness ==
    /\ inv = 2
    /\ cliRuns = 0
    /\ prevMapped = {Hash(1)}
    /\ data = <<1>>
    /\ sbatchLog = <<Hash(1)>>
    /\ jobs[1].st = "gone"
    /\ jobs[2].st = "pending" /\ jobs[2].h = Hash(1)
    /\ resFile[Hash(1)] = Absent
    /\ argFile[Hash(1)] = ArgOf(1)

\* C15: a watcher that has not returned can always take a step once the stop
\* flag is set, in its first loop and in its second, whether or not its job
\* writes anything more: it is never held in a place where it cannot see
\* the flag.
C15_WatcherSeesStopFlag ==
    \A j \in JobIds :
        (stopListeners /\ wpc[j] \in {"wait", "stream", "read"}) => ENABLED WatchStep(j)

\* What C16_BoundedAttemptsErrorPropagates asks of every step.
C16_Step ==
    /\ (rpc = "idle" /\ rpc' # "idle") =>
          /\ UNCHANGED fsVars
          /\ rattempts' = 0
          /\ rpc' = IF nsExists THEN "retry" ELSE "returned"
    /\ rattempts' # rattempts =>
          /\ rpc = "retry"
          /\ rattempts' = rattempts + 1
          /\ rattempts' <= max_retries + 1
    /\ (rpc = "retry" /\ rpc' = "retry") =>
          /\ nsExists'
          /\ rattempts' = rattempts + 1
          /\ rattempts' <= max_retries
          /\ dt' = 2 * dt
    /\ (rpc = "retry" /\ rpc' = "returned") =>
          /\ rattempts' = rattempts + 1
          /\ ~nsExists'
          /\ ~ledger'.present
          /\ \A h \in Hashes : ~isfile(argFile'[h]) /\ ~isfile(resFile'[h])
    /\ rpc' = "raised" =>
          /\ rattempts' = max_retries + 1
          /\ nsExists'
    /\ rpc \in {"returned", "raised"} => UNCHANGED <<rmVars, fsVars>>

\* C16: robust_rmtree does nothing and returns when the path is not a
\* directory; otherwise every attempt but the last that fails is followed by
\* another one after a doubled delay, the first attempt that succeeds ends
\* the call with the directory and everything in it gone, there are never
\* more than max_retries + 1 attempts, and the call raises only when the
\* attempt number max_retries + 1 has failed; after it returned or raised
\* it does nothing more.
C16_BoundedAttemptsErrorPropagates == [][C16_Step]_vars

\* C16 witness: every attempt failed, the last one being number
\* max_retries + 1, the error went to the caller and the directory is there.
C16_Witness ==
    /\ rpc = "raised"
    /\ rattempts = max_retries + 1
    /\ ri = max_retries
    /\ nsExists

\* C17: when the controlling process has been killed during map, every job
\* that is pending or running is listed in the persisted ledger, where a
\* later cancel command or map invocation finds it.
C17_KilledLeavesJobsInLedger ==
    pc = "killed" =>
        \A j \in JobIds :
            Active(j) => (ledger.present /\ j \in Range(ledger.ids))

\* The jobs of the ledger that the scheduler accepted for hash h.
LedgerJobsFor(h) ==
    {j \in Range(ledger.ids) : jobs[j].st # "none" /\ jobs[j].h = h}

\* C18: when a submission pass has finished, every hash that has an argument
\* artifact and no result artifact has a job of the ledger that the
\* scheduler accepted for it.  Stated for runs in which no cancel or cleanup
\* command has been used.
C18_ArgumentArtifactHasAcceptedJob ==
    (cliRuns = 0 /\ pc = "started") =>
        \A h \in Hashes :
            (isfile(argFile[h]) /\ ~isfile(resFile[h])) =>
                (ledger.present /\ LedgerJobsFor(h) # {})

\* C19: a result artifact that holds a value holds the mapped function
\* applied to the payload whose hash names the artifact.
C19_ResultIsFunctionOfItsPayload ==
    \A h \in Hashes : Complete(resFile[h]) => resFile[h] = Apply(Payload(h))

\* What C20_ResultBeforeArgumentRemoval asks of every step.
C20_Step ==
    cliRuns = 0 =>
        /\ \A j \in JobIds : Active(j) => AlreadyThere(jobs[j].h)
        /\ \A j \in JobIds :
              (jobs[j].st = "written" /\ jobs'[j].st = "gone" /\ nsExists') =>
                  /\ Complete(resFile[jobs[j].h])
                  /\ resFile'[jobs[j].h] = resFile[jobs[j].h]
                  /\ ~isfile(argFile'[jobs[j].h])
        /\ \A h \in Hashes :
              (isfile(argFile[h]) /\ ~isfile(argFile'[h]) /\ nsExists') =>
                  \/ isfile(resFile[h]) /\ isfile(resFile'[h])
                  \/ \E j \in JobIds :
                        jobs[j].st = "running" /\ jobs[j].h = h /\ jobs'[j].st = "gone"
        /\ \A h \in Hashes :
              (AlreadyThere(h) /\ nsExists' /\ ~isfile(argFile'[h]) /\ ~isfile(resFile'[h])) =>
                  \E j \in JobIds :
                      jobs[j].st = "running" /\ jobs[j].h = h /\ jobs'[j].st = "gone"

====
